---- MODULE Spec2Model ----
(***************************************************************************)
(* The paginated, cached user listing and search handler of the           *)
(* medjournal backend (api/src/controllers/getAllUsersForAdmin.js, the    *)
(* same code as userController.getAllUsersData), with its two process-    *)
(* wide caches, their eviction timers, the periodic sweep, the Identity   *)
(* Provider (auth.listUsers) and the Profile Store (firestore).           *)
(*                                                                         *)
(* One request is a chain of atomic steps separated by the handler's      *)
(* awaits: the event loop runs each step to completion and interleaves    *)
(* the steps of different requests and the timer callbacks.               *)
(*                                                                         *)
(* FnSpec calls the pure functions of the handler, and the two handlers    *)
(* userController.getUserData and updateUserAccount, once each on inputs   *)
(* drawn from bounded sets.                                                *)
(***************************************************************************)
EXTENDS Integers, Sequences, FiniteSets, TLC

VARIABLES
    pageTokensMap,      \* Map: logical page -> provider page token
    searchResultsCache, \* Map: cacheKey -> ranked result list
    timers,             \* pending setTimeout callbacks: the map, the page or
                        \* the cacheKey its closure holds, the time it is due
    now,                \* Date.now(), in ticks
    req,                \* the in-flight requests, per slot
    started,            \* history: the number of requests received
    visited,            \* history: the pages listing requests have asked for
    keyUsers,           \* history: cacheKey -> the callers whose requests used it
    last,               \* the request the step just taken finished, with its responses
    probe               \* FnSpec: the last call of a pure function, with its result

vars == <<pageTokensMap, searchResultsCache, timers, now, req, started,
          visited, keyUsers, last, probe>>

----------------------------------------------------------------------------
(* Bounds of the model.  The code's PAGE_SIZE is 10, its scan batch 1000   *)
(* and its TTL 5 * 60 * 1000 ms; the model keeps their roles and scales    *)
(* them so that several pages, several scan batches and an expiry fit a    *)
(* population of five users and a clock of a few ticks.                    *)

PAGE_SIZE == 2
SCAN_BATCH == 3
TTL == 2
MaxTime == 2
MaxPage == 2
NumReq == 2
MaxRequests == 3
MaxTotal == 5
MaxPopulation == 3
MaxTerms == 3

----------------------------------------------------------------------------
(* Program constants (utils/constants.js).                                 *)

PATIENT_ROLE == "patients"
DOCTOR_ROLE == "doctors"
ADMIN_ROLE == "admin@medjournal"

\* JavaScript's undefined, for a page token or a missing Map entry.
undefined == <<>>

\* req.user.role, the role claim of the decoded token.  authMiddleware
\* answers 401 before the handler when there is no valid token, so req.user
\* is set whenever the handler runs.
Callers == {ADMIN_ROLE, DOCTOR_ROLE}

----------------------------------------------------------------------------
(* The Identity Provider's user population (unchanging) and the Profile    *)
(* Store.  A record whose metadata is missing makes processUserRecord      *)
(* throw (userRecord.metadata.creationTime).                               *)

UserRecords ==
    << [uid |-> 1, displayName |-> "anna", role |-> DOCTOR_ROLE,
        admin |-> FALSE, metadata |-> TRUE],
       [uid |-> 2, displayName |-> "anne", role |-> ADMIN_ROLE,
        admin |-> TRUE, metadata |-> TRUE],
       [uid |-> 3, displayName |-> "bob", role |-> PATIENT_ROLE,
        admin |-> FALSE, metadata |-> TRUE],
       [uid |-> 4, displayName |-> "anna", role |-> PATIENT_ROLE,
        admin |-> FALSE, metadata |-> FALSE],
       [uid |-> 5, displayName |-> "bob", role |-> PATIENT_ROLE,
        admin |-> FALSE, metadata |-> TRUE] >>

NumUsers == Len(UserRecords)

\* firestore.collection(role).doc(uid): "absent" when the snapshot does not
\* exist, else the document, told by its isProfileComplete field.
ProfileStore ==
    [u \in 1..NumUsers |->
        CASE u = 1 -> "complete"
          [] u = 3 -> "incomplete"
          [] u = 5 -> "complete"
          [] OTHER -> "absent"]

\* The request bodies the model submits.
Pages == 0..MaxPage
Searches == { <<>>, <<"anna">> }
Reqs == 1..NumReq

Min(a, b) == IF a < b THEN a ELSE b
Max(a, b) == IF a > b THEN a ELSE b

----------------------------------------------------------------------------
(* JavaScript Map and Array helpers.                                       *)

MapGet(m, k) == IF k \in DOMAIN m THEN m[k] ELSE undefined
MapHas(m, k) == k \in DOMAIN m
\* Mutant: set keeps the value a key already has.
MapSetKeepsFirst(m, k, v) ==
    [x \in DOMAIN m \cup {k} |-> IF x \in DOMAIN m THEN m[x] ELSE v]

MapSet(m, k, v) == [x \in DOMAIN m \cup {k} |-> IF x = k THEN v ELSE m[x]]
MapDelete(m, k) == [x \in DOMAIN m \ {k} |-> m[x]]
EmptyMap == [x \in {} |-> undefined]

\* Array.prototype.slice(start, end) on a 0-based array.
Slice(a, start, end) ==
    LET len == Len(a)
        from == IF start < 0 THEN Max(len + start, 0) ELSE Min(start, len)
        to == IF end < 0 THEN Max(len + end, 0) ELSE Min(end, len)
    IN  IF from >= to THEN <<>> ELSE SubSeq(a, from + 1, to)

\* Mutant: the quotient is rounded down.
CeilFloor(n, d) == n \div d

\* Math.ceil(n / d) for n >= 0, d > 0.
Ceil(n, d) == (n + d - 1) \div d

----------------------------------------------------------------------------
(* Identity Provider: auth.listUsers(maxResults, pageToken).  A page token *)
(* stands for the offset at which the next batch starts.                   *)

Token(offset) == <<offset>>
OffsetOf(token) == IF token = undefined THEN 0 ELSE token[1]

\* Mutant: the provider returns every record from the token on, whatever
\* maxResults is.
listUsersUnbounded(maxResults, pageToken) ==
    [users |-> IF OffsetOf(pageToken) >= NumUsers THEN <<>>
               ELSE SubSeq(UserRecords, OffsetOf(pageToken) + 1, NumUsers),
     pageToken |-> undefined]

listUsers(maxResults, pageToken) ==
    LET off == OffsetOf(pageToken)
        end == Min(off + maxResults, NumUsers)
    IN  [users |-> IF off >= end THEN <<>> ELSE SubSeq(UserRecords, off + 1, end),
         pageToken |-> IF off + maxResults < NumUsers
                       THEN Token(off + maxResults) ELSE undefined]

----------------------------------------------------------------------------
(* Record Projector (utils/functions.js).                                  *)

\* getProfileData(uid, role): the profile document or null; a failure of the
\* store read is caught and gives null as well.
getProfileData(uid, role, fetchFails) ==
    IF role # "" /\ role # ADMIN_ROLE
    THEN IF fetchFails THEN "null"
         ELSE IF ProfileStore[uid] # "absent" THEN ProfileStore[uid] ELSE "null"
    ELSE "null"

\* Mutant: the profile is fetched for every record that has a role.
FetchesProfileOfAdmins(userRecord) == userRecord.role # ""

\* if (userData.role && !userData.isAdmin), with isAdmin the isAdmin or the
\* admin claim of the record.
FetchesProfile(userRecord) == userRecord.role # "" /\ ~userRecord.admin

\* Whether processUserRecord awaits the Profile Store for this record.
NeedsProfile(userRecord) ==
    userRecord.metadata /\ FetchesProfile(userRecord)

\* Whether projecting the record reads its document from the Profile Store:
\* getProfileData is called and its role test lets the read through.
ReadsStore(userRecord) ==
    /\ userRecord.metadata
    /\ FetchesProfile(userRecord)
    /\ userRecord.role # "" /\ userRecord.role # ADMIN_ROLE

\* JavaScript's null in the place of a user view.
null ==
    [uid |-> 0, displayName |-> "", role |-> "", isAdmin |-> FALSE,
     profile |-> "unset"]

\* Mutant: a failing Profile Store read is not caught in getProfileData, so
\* it is caught by processUserRecord, which returns null.
processUserRecordDropsOnFetchError(userRecord, fetchFails) ==
    IF ~userRecord.metadata
       \/ (userRecord.role # "" /\ ~userRecord.admin /\ fetchFails)
    THEN null
    ELSE [uid |-> userRecord.uid,
          displayName |-> userRecord.displayName,
          role |-> userRecord.role,
          isAdmin |-> userRecord.admin,
          profile |-> IF userRecord.role # "" /\ ~userRecord.admin
                      THEN getProfileData(userRecord.uid, userRecord.role, FALSE)
                      ELSE "unset"]

\* processUserRecord(userRecord): userData, or the null it returns when
\* building userData throws.  profile stays "unset" when the record has no
\* role or is an admin.
processUserRecord(userRecord, fetchFails) ==
    IF ~userRecord.metadata THEN null
    ELSE [uid |-> userRecord.uid,
          displayName |-> userRecord.displayName,
          role |-> userRecord.role,
          isAdmin |-> userRecord.admin,
          profile |-> IF FetchesProfile(userRecord)
                      THEN getProfileData(userRecord.uid, userRecord.role,
                                          fetchFails)
                      ELSE "unset"]

\* users.map(processUserRecord) and Promise.all: the results by index.
MapProcess(users, failing) ==
    [i \in 1..Len(users) |-> processUserRecord(users[i], users[i].uid \in failing)]

\* Mutant: the nulls are not filtered out.
FilterKeepsNull(processed) == processed

\* processed.filter((user) => user !== null).
RECURSIVE FilterNotNull(_)
FilterNotNull(processed) ==
    IF processed = <<>> THEN <<>>
    ELSE (IF Head(processed) # null THEN <<Head(processed)>> ELSE <<>>)
         \o FilterNotNull(Tail(processed))

\* Mutant: only the first record of the batch is projected.
ProcessBatchFirstOnly(users, failing) ==
    FilterNotNull(MapProcess(SubSeq(users, 1, Min(1, Len(users))), failing))

\* The projected batch: map, Promise.all, filter.  The results are merged by
\* index, so provider order is kept.
ProcessBatch(users, failing) == FilterNotNull(MapProcess(users, failing))

AnyNeedsProfile(users) == \E i \in 1..Len(users) : NeedsProfile(users[i])

\* The Profile Store reads of one batch that may raise: none, or one.
FailChoices(users) ==
    {{}} \cup {{users[i].uid} : i \in {j \in 1..Len(users) : NeedsProfile(users[j])}}

----------------------------------------------------------------------------
(* JavaScript values, as far as prepareSearchableObject tells them apart.  *)
(* A string is the sequence of its words: '' is <<>>, join(' ') is         *)
(* concatenation and a string is truthy when it has a word.  An object is  *)
(* the sequence of its own enumerable properties, <<key, value>>, in       *)
(* insertion order.                                                        *)

Str(words) == [t |-> "string", v |-> words]
Num(digits) == [t |-> "number", v |-> <<digits>>]
Bool(b) == [t |-> "boolean", v |-> <<IF b THEN "true" ELSE "false">>]
Null == [t |-> "null", v |-> <<>>]
DateOf(text) == [t |-> "Date", v |-> <<text>>]
TimestampOf(seconds) == [t |-> "Timestamp", v |-> <<seconds>>]
Obj(props) == [t |-> "object", v |-> props]
Arr(items) == [t |-> "array", v |-> items]

\* String.prototype.toLowerCase on a word.
toLowerCase(word) ==
    CASE word = "Bob" -> "bob"
      [] word = "Anna" -> "anna"
      [] OTHER -> word

RECURSIVE LowerAll(_)
LowerAll(words) ==
    IF words = <<>> THEN <<>>
    ELSE <<toLowerCase(Head(words))>> \o LowerAll(Tail(words))

\* key.toLowerCase().includes('date').
KeyIncludesDate(key) == key \in {"birthDate", "updatedAt", "date"}

\* typeof value === 'object' && value !== null.
IsObject(value) == value.t \in {"object", "array", "Date", "Timestamp"}

\* The own enumerable properties a for-in loop visits.  A Date has none; a
\* firestore Timestamp has its two fields, _seconds and _nanoseconds; an
\* array has its indices.
OwnProps(value) ==
    CASE value.t = "object" -> value.v
      [] value.t = "array" ->
            [i \in 1..Len(value.v) |-> <<ToString(i - 1), value.v[i]>>]
      [] value.t = "Timestamp" ->
            << <<"_seconds", Num(value.v[1])>>, <<"_nanoseconds", Num("0")>> >>
      [] OTHER -> <<>>

\* processValue(value): the searchable string of a primitive.
processValue(value) ==
    CASE value.t = "boolean" -> value.v
      [] value.t = "number" -> value.v
      [] value.t = "string" -> LowerAll(value.v)
      [] OTHER -> <<>>

\* "Skip specific types and fields".
Skipped(key, value) ==
    \/ value.t \in {"Timestamp", "Date"}
    \/ KeyIncludesDate(key)
    \/ key = "password"
    \/ key = "token"

\* searchable[key] = str on the flattened object, a sequence of
\* [key, value] in insertion order.
RECURSIVE SetKey(_, _, _)
SetKey(searchable, key, str) ==
    IF searchable = <<>> THEN << [key |-> key, value |-> str] >>
    ELSE IF Head(searchable).key = key
         THEN << [key |-> key, value |-> str] >> \o Tail(searchable)
         ELSE <<Head(searchable)>> \o SetKey(Tail(searchable), key, str)

\* Object.values(searchable).filter(Boolean).join(' ').
RECURSIVE JoinValues(_)
JoinValues(searchable) ==
    IF searchable = <<>> THEN <<>>
    ELSE Head(searchable).value \o JoinValues(Tail(searchable))

\* flatten(current, prefix), on the searchable object shared by all its
\* calls: the searchable object after the call.  An array's items are
\* flattened without a prefix into the same searchable object, and each
\* item's string is the join of all the values gathered so far.
RECURSIVE flatten(_, _, _)
RECURSIVE FlattenProps(_, _, _)
RECURSIVE FlattenItems(_, _, _)
flatten(searchable, current, prefix) ==
    IF current.t = "null" THEN searchable
    ELSE FlattenProps(searchable, OwnProps(current), prefix)

FlattenProps(searchable, props, prefix) ==
    IF props = <<>> THEN searchable
    ELSE LET key == Head(props)[1]
             value == Head(props)[2]
             newKey == prefix \o <<key>>
         IN  IF Skipped(key, value)
             THEN FlattenProps(searchable, Tail(props), prefix)
             ELSE IF value.t = "array"
             THEN LET r == FlattenItems(searchable, value.v, <<>>)
                  IN  FlattenProps(SetKey(r.searchable, newKey, r.str),
                                   Tail(props), prefix)
             ELSE IF IsObject(value)
             THEN FlattenProps(flatten(searchable, value, newKey),
                               Tail(props), prefix)
             ELSE IF processValue(value) # <<>>
             THEN FlattenProps(SetKey(searchable, newKey, processValue(value)),
                               Tail(props), prefix)
             ELSE FlattenProps(searchable, Tail(props), prefix)

FlattenItems(searchable, items, str) ==
    IF items = <<>> THEN [searchable |-> searchable, str |-> str]
    ELSE IF IsObject(Head(items))
         THEN LET after == flatten(searchable, Head(items), <<>>)
              IN  FlattenItems(after, Tail(items), str \o JoinValues(after))
         ELSE FlattenItems(searchable, Tail(items),
                           str \o processValue(Head(items)))

\* prepareSearchableObject(obj): the flattened object with its 'all' field.
prepareSearchableObject(obj) ==
    LET flattened == flatten(<<>>, obj, <<>>)
    IN  SetKey(flattened, <<"all">>, JoinValues(flattened))

AllOf(searchable) ==
    searchable[CHOOSE i \in 1..Len(searchable) : searchable[i].key = <<"all">>].value

----------------------------------------------------------------------------
(* Fuzzy search (utils/functions.js performSearch, SearchQuery).  The      *)
(* fuzzysort library is stood for by a score table over words: 0 for the   *)
(* word itself, a lower score for a near match, no hit otherwise; a target *)
(* that holds a very long text scores every match under the threshold.     *)

NearNames == { <<"anna", "anne">>, <<"anne", "anna">> }
LongTexts == { "essay" }

\* value.includes(query) on one word: the long text holds every name.
WordIncludes(word, query) ==
    word = query \/ (word \in LongTexts /\ query \in {"anna", "anne", "bob"})

WordMatches(query, word) ==
    word = query \/ <<query, word>> \in NearNames \/ WordIncludes(word, query)

\* The score fuzzysort gives a target that matches, and whether it passes
\* the threshold (-10000 in the code).
FuzzyScore(query, target) ==
    IF \E i \in 1..Len(target) : target[i] = query THEN 0 ELSE 0 - 2

FuzzyHit(query, target) ==
    /\ \E i \in 1..Len(target) : WordMatches(query, target[i])
    /\ ~\E i \in 1..Len(target) : target[i] \in LongTexts

\* The hits of fuzzysort.go on the 'all' fields, by place in data.
RECURSIVE ScoreAll(_, _, _)
ScoreAll(query, searchableData, i) ==
    IF i > Len(searchableData) THEN <<>>
    ELSE (IF FuzzyHit(query, AllOf(searchableData[i]))
          THEN << [idx |-> i,
                   searchScore |-> FuzzyScore(query, AllOf(searchableData[i]))] >>
          ELSE <<>>)
         \o ScoreAll(query, searchableData, i + 1)

\* Mutant: the results are left in the order they were found.
SortByScoreNot(s) == s

\* Stable sort by searchScore, highest first (Array.prototype.sort with
\* (a, b) => b.searchScore - a.searchScore).
RECURSIVE InsertByScore(_, _)
InsertByScore(sorted, x) ==
    IF sorted = <<>> THEN <<x>>
    ELSE IF Head(sorted).searchScore >= x.searchScore
         THEN <<Head(sorted)>> \o InsertByScore(Tail(sorted), x)
         ELSE <<x>> \o sorted

RECURSIVE SortByScore(_)
SortByScore(s) ==
    IF s = <<>> THEN <<>>
    ELSE InsertByScore(SortByScore(SubSeq(s, 1, Len(s) - 1)), s[Len(s)])

\* Object.values(item.searchable).some((value) => value.includes(query)).
SubstringHit(query, searchable) ==
    \E i \in 1..Len(searchable) :
        \E j \in 1..Len(searchable[i].value) :
            WordIncludes(searchable[i].value[j], query)

RECURSIVE FallbackAll(_, _, _)
FallbackAll(query, searchableData, i) ==
    IF i > Len(searchableData) THEN <<>>
    ELSE (IF SubstringHit(query, searchableData[i])
          THEN << [idx |-> i, searchScore |-> 0] >>
          ELSE <<>>)
         \o FallbackAll(query, searchableData, i + 1)

\* Mutant: the fallback hits are added to the primary hits.
UseFallbackAlways(results) == TRUE

\* if (!results.length).
UseFallback(results) == results = <<>>

\* data.map((item) => prepareSearchableObject(item)).
RECURSIVE PrepareAll(_)
PrepareAll(data) ==
    IF data = <<>> THEN <<>>
    ELSE <<prepareSearchableObject(Head(data))>> \o PrepareAll(Tail(data))

\* performSearch(searchQuery, data): the hits as [idx, searchScore], idx the
\* place of the original in data.  fuzzysort.go on the 'all' field (its
\* limit of 100 hits is above the population), else the substring fallback
\* with score 0.
performSearch(searchQuery, data) ==
    IF searchQuery = "" \/ data = <<>> THEN <<>>
    ELSE LET searchableData == PrepareAll(data)
             query == toLowerCase(searchQuery)
             results == SortByScore(ScoreAll(query, searchableData, 1))
         IN  IF UseFallback(results)
             THEN results \o FallbackAll(query, searchableData, 1)
             ELSE results

\* The value of the object's own property key, or Null.
PropOf(obj, key) ==
    IF obj.t = "object" /\ \E i \in 1..Len(obj.v) : obj.v[i][1] = key
    THEN obj.v[CHOOSE i \in 1..Len(obj.v) : obj.v[i][1] = key][2]
    ELSE Null

\* const key = item.uid || JSON.stringify(item), for a hit x on data.
DedupKey(data, x) ==
    IF PropOf(data[x.idx], "uid").v # <<>>
    THEN <<"uid", PropOf(data[x.idx], "uid").v>>
    ELSE <<"json", data[x.idx], x.searchScore>>

\* (existing.searchScore || 0) < (item.searchScore || 0).
Replaces(existing, item) == existing.searchScore < item.searchScore

\* resultsMap: one entry per key, at the place of its first insertion,
\* replaced when a later hit has a strictly higher score.
RECURSIVE Dedup(_, _, _)
Dedup(data, acc, rest) ==
    IF rest = <<>> THEN acc
    ELSE LET x == Head(rest)
             at == {i \in 1..Len(acc) : DedupKey(data, acc[i]) = DedupKey(data, x)}
         IN  IF at = {} THEN Dedup(data, Append(acc, x), Tail(rest))
             ELSE LET i == CHOOSE j \in at : TRUE
                  IN  IF Replaces(acc[i], x)
                      THEN Dedup(data, [acc EXCEPT ![i] = x], Tail(rest))
                      ELSE Dedup(data, acc, Tail(rest))

\* search.filter(Boolean): the empty terms are dropped.
RECURSIVE FilterTerms(_)
FilterTerms(search) ==
    IF search = <<>> THEN <<>>
    ELSE (IF Head(search) # "" THEN <<Head(search)>> ELSE <<>>)
         \o FilterTerms(Tail(search))

\* searchTerms.flatMap((term) => performSearch(term, searchFrom)).
RECURSIVE FlatMapSearch(_, _)
FlatMapSearch(terms, searchFrom) ==
    IF terms = <<>> THEN <<>>
    ELSE performSearch(Head(terms), searchFrom)
         \o FlatMapSearch(Tail(terms), searchFrom)

\* SearchQuery(search, searchFrom): the hits as [idx, searchScore].
SearchQuery(search, searchFrom) ==
    IF search = <<>> \/ searchFrom = <<>> THEN <<>>
    ELSE LET searchTerms == FilterTerms(search)
         IN  IF searchTerms = <<>> THEN <<>>
             ELSE SortByScore(Dedup(searchFrom, <<>>,
                                    FlatMapSearch(searchTerms, searchFrom)))

\* The object processUserRecord builds, for a user view of the model.
ViewObject(view) ==
    Obj(<< <<"uid", Str(<<ToString(view.uid)>>)>>,
           <<"displayName", Str(<<view.displayName>>)>>,
           <<"role", Str(<<view.role>>)>>,
           <<"isAdmin", IF view.isAdmin THEN Bool(TRUE) ELSE Null>>,
           <<"createdAt", Str(<<"jan2024">>)>> >>
        \o (CASE view.profile = "unset" -> <<>>
              [] view.profile = "null" -> << <<"profile", Null>> >>
              [] OTHER ->
                 << <<"profile",
                      Obj(<< <<"isProfileComplete",
                               Bool(view.profile = "complete")>>,
                             <<"createdAt", TimestampOf("1700")>> >>)>> >>))

RECURSIVE ViewObjects(_)
ViewObjects(views) ==
    IF views = <<>> THEN <<>>
    ELSE <<ViewObject(Head(views))>> \o ViewObjects(Tail(views))

\* SearchQuery(search, allUsers) on the user views of the handler: the hits
\* as [item, searchScore].
RECURSIVE HitsOf(_, _)
HitsOf(hits, allUsers) ==
    IF hits = <<>> THEN <<>>
    ELSE << [item |-> allUsers[Head(hits).idx],
             searchScore |-> Head(hits).searchScore] >>
         \o HitsOf(Tail(hits), allUsers)

SearchUsers(search, allUsers) ==
    HitsOf(SearchQuery(search, ViewObjects(allUsers)), allUsers)

\* The lists of views a full scan can gather from the page token on: the
\* batches of the population, each projected with any of the Profile Store
\* failures it can meet.
RECURSIVE ScanOutcomes(_)
ScanOutcomes(pageToken) ==
    LET batch == listUsers(SCAN_BATCH, pageToken)
        heads == {ProcessBatch(batch.users, failing) :
                      failing \in FailChoices(batch.users)}
    IN  IF batch.pageToken = undefined THEN heads
        ELSE {h \o t : h \in heads, t \in ScanOutcomes(batch.pageToken)}

\* SearchQuery(search, allUsers) for the searches of the model and the lists
\* of a full scan, computed once.
SearchTable ==
    [p \in (Searches \ {<<>>}) \X ScanOutcomes(undefined) |->
        SearchUsers(p[1], p[2])] @@ <<>>

SearchAllUsers(search, allUsers) ==
    IF <<search, allUsers>> \in DOMAIN SearchTable
    THEN SearchTable[<<search, allUsers>>]
    ELSE SearchUsers(search, allUsers)

----------------------------------------------------------------------------
(* The request handler (controllers/getAllUsersForAdmin.js, module.exports)*)

\* A request slot.  res is the list of responses the handler has tried to
\* send, in order: Express delivers the first and throws on a later one
\* (the headers are already sent).  body is the payload of the 200 response
\* the handler built, calls the number of auth.listUsers calls it issued and
\* ops the cache operations it performed and the provider errors it met.
IdleReq ==
    [st |-> "idle", caller |-> "", page |-> 0, search |-> <<>>,
     token |-> undefined, batch |-> <<>>, batchToken |-> undefined,
     allUsers |-> <<>>, res |-> <<>>, body |-> <<>>, calls |-> 0, ops |-> {}]

\* isNotAdmin(req, res): sends 403 Forbidden when user.role is not
\* ADMIN_ROLE.
isNotAdmin(caller) == caller # ADMIN_ROLE

\* const cacheKey = JSON.stringify(search): the terms alone.
JSONstringify(search) == <<"json">> \o search
cacheKey(search, caller) == JSONstringify(search)

\* Mutant: the missing-token check is left out.
TokenMissingNever(nextPageToken) == FALSE

\* if (!nextPageToken): the page has no entry in pageTokensMap.
TokenMissing(nextPageToken) == nextPageToken = undefined

\* Mutant: the token is stored under the page that was listed.
NextPageKeySamePage(page) == page

\* Mutant: the token is stored one page too far.
NextPageKeyOffByOne(page) == page + 2

\* The page a provider token is stored under.
NextPageKey(page) == page + 1

\* Mutant: the token is stored whether or not the provider returned one.
HasTokenAlways(listUsersResult) == TRUE

\* if (listUsersResult.pageToken): the provider returned a continuation.
HasToken(listUsersResult) == listUsersResult.pageToken # undefined

\* setTimeout(..., 5 * 60 * 1000): the time the callback is due.
TimeoutDue(t) == t + TTL

\* The locals of a finished handler are gone.
Finished(rec) ==
    [rec EXCEPT !.st = "done", !.token = undefined, !.batch = <<>>,
                !.batchToken = undefined, !.allUsers = <<>>]

\* Slot r takes its next step to rec: a finished request leaves the slot
\* and is shown in last until the next step.
Step(r, rec) ==
    IF rec.st = "done"
    THEN /\ req' = [req EXCEPT ![r] = IdleReq]
         /\ last' = rec
    ELSE /\ req' = [req EXCEPT ![r] = rec]
         /\ last' = IdleReq

\* catch (error): res.status(500).json(...).
Catch(rec) == Finished([rec EXCEPT !.res = Append(@, 500)])

\* Mutant: the rejected auth.listUsers call is issued again.
ProviderErrorRetries(rec) ==
    [rec EXCEPT !.ops = @ \cup {"providerError"}, !.calls = @ + 1]

\* await auth.listUsers(...) rejects: control passes to the catch block.
\* The request's ops record the rejection.
ProviderError(rec) == Catch([rec EXCEPT !.ops = @ \cup {"providerError"}])

\* return res.status(code).json(body) inside the try block: when a response
\* was already sent it throws, and the catch block tries to send 500.
Respond(rec, code, body) ==
    IF rec.res = <<>>
    THEN Finished([rec EXCEPT !.res = <<code>>, !.body = body])
    ELSE Catch([rec EXCEPT !.res = Append(@, code), !.body = body])

\* Paginate search results and answer.
RespondSearch(rec, allSearchResults) ==
    LET startIndex == rec.page * PAGE_SIZE
    IN  Respond(rec, 200,
            << [users |-> Slice(allSearchResults, startIndex, startIndex + PAGE_SIZE),
                totalCount |-> Len(allSearchResults),
                currentPage |-> rec.page,
                totalPages |-> Ceil(Len(allSearchResults), PAGE_SIZE),
                hasNextPage |-> startIndex + PAGE_SIZE < Len(allSearchResults)] >>)

\* Mutant: the entry of the page after the listed one is left false.
PageTokensWithoutNext(page, map) ==
    [i \in 0..(page + 1) |-> i <= page /\ MapHas(map, i)]

\* Mutant: the loop stops one index early (i < page + 1).
PageTokensShort(page, map) == [i \in 0..page |-> MapHas(map, i)]

\* for (let i = 0; i <= page + 1; i++) pageTokens[i] = pageTokensMap.has(i):
\* the array, as a function of its indices.
PageTokensOf(page, map) == [i \in 0..(page + 1) |-> MapHas(map, i)]

\* Build pageTokens and answer a listing.
RespondListing(rec, validUsers, hasNext, map) ==
    Respond([rec EXCEPT !.ops = @ \cup {"tokenHas"}], 200,
        << [users |-> validUsers,
            totalCount |-> Len(validUsers),
            currentPage |-> rec.page,
            pageTokens |-> PageTokensOf(rec.page, map),
            hasNextPage |-> hasNext] >>)

\* Mutant: every request takes the listing path.
IsSearchNever(search) == FALSE

\* if (search?.length): the request is a search.
IsSearch(search) == search # <<>>

\* The handler up to its first await: role check, then the search cache
\* lookup or the page token lookup.  The value isNotAdmin returns is not
\* used, so the handler goes on after a 403.
Start(r, caller, page, search) ==
    /\ req[r].st = "idle"
    /\ started < MaxRequests
    /\ started' = started + 1
    /\ visited' = IF search # <<>> THEN visited ELSE visited \cup {page}
    /\ keyUsers' = IF search # <<>>
                   THEN LET key == cacheKey(search, caller)
                        IN  MapSet(keyUsers, key,
                                   (IF MapHas(keyUsers, key) THEN keyUsers[key]
                                    ELSE {}) \cup {caller})
                   ELSE keyUsers
    /\ \A q \in Reqs : q < r => req[q].st # "idle"
    /\ LET rec == [IdleReq EXCEPT !.caller = caller, !.page = page,
                                  !.search = search,
                                  !.res = IF isNotAdmin(caller) THEN <<403>> ELSE <<>>]
           key == cacheKey(search, caller)
       IN  IF IsSearch(search)
           THEN LET rec1 == [rec EXCEPT !.ops = {"searchGet"}]
                IN  IF MapHas(searchResultsCache, key)
                    THEN Step(r, RespondSearch(rec1, searchResultsCache[key]))
                    ELSE Step(r, [rec1 EXCEPT !.st = "scanWait", !.calls = 1])
           ELSE IF page = 0
                THEN Step(r, [rec EXCEPT !.st = "listWait", !.calls = 1])
                ELSE LET rec1 == [rec EXCEPT !.ops = {"tokenGet"}]
                         nextPageToken == MapGet(pageTokensMap, page)
                     IN  IF TokenMissing(nextPageToken)
                         THEN Step(r, Respond(rec1, 400, <<>>))
                         ELSE Step(r, [rec1 EXCEPT !.st = "listWait",
                                                   !.token = nextPageToken,
                                                   !.calls = 1])
    /\ UNCHANGED <<pageTokensMap, searchResultsCache, timers, now, probe>>

\* auth.listUsers(PAGE_SIZE, token) of a listing settles: on failure the
\* catch block answers 500; else the next page token is stored with its
\* eviction timer and the records are projected.
ListReturn(r, ok) ==
    /\ UNCHANGED <<started, visited, keyUsers, probe>>
    /\ req[r].st = "listWait"
    /\ IF ~ok
       THEN /\ Step(r, ProviderError(req[r]))
            /\ UNCHANGED <<pageTokensMap, timers>>
       ELSE LET rec == req[r]
                listUsersResult == listUsers(PAGE_SIZE, rec.token)
                store == HasToken(listUsersResult)
                key == NextPageKey(rec.page)
                map == IF store
                       THEN MapSet(pageTokensMap, key, listUsersResult.pageToken)
                       ELSE pageTokensMap
                rec1 == [rec EXCEPT !.ops = IF store THEN @ \cup {"tokenSet"} ELSE @,
                                    !.batchToken = listUsersResult.pageToken]
            IN  /\ pageTokensMap' = map
                /\ timers' = IF store
                             THEN timers \cup {[map |-> "pageTokens", page |-> key,
                                                key |-> <<>>,
                                                due |-> TimeoutDue(now)]}
                             ELSE timers
                /\ IF AnyNeedsProfile(listUsersResult.users)
                   THEN Step(r, [rec1 EXCEPT !.st = "projecting",
                                             !.batch = listUsersResult.users])
                   ELSE Step(r, RespondListing(rec1,
                                    ProcessBatch(listUsersResult.users, {}),
                                    store, map))
    /\ UNCHANGED <<searchResultsCache, now>>

\* Promise.all(userPromises) of a listing settles: the Profile Store reads
\* are done (those in failing raised), the response is built and sent.
ListProjected(r, failing) ==
    /\ UNCHANGED <<started, visited, keyUsers, probe>>
    /\ req[r].st = "projecting"
    /\ failing \in FailChoices(req[r].batch)
    /\ Step(r, RespondListing(req[r], ProcessBatch(req[r].batch, failing),
                               req[r].batchToken # undefined, pageTokensMap))
    /\ UNCHANGED <<pageTokensMap, searchResultsCache, timers, now>>

\* Mutant: the loop leaves after its first batch.
ScanStopsAfterFirstBatch(nextPageToken) == FALSE

\* while (nextPageToken): the scan goes on as long as the batch came with a
\* page token.
ScanContinues(nextPageToken) == nextPageToken # undefined

\* The end of one turn of the scan loop: the batch's projected users are
\* added; with a page token the next auth.listUsers call is issued, without
\* one the search runs, its result is cached with an eviction timer and the
\* requested page of it is sent.
ScanStep(r, pageToken, processedUsers) ==
    LET rec == req[r]
        allUsers == rec.allUsers \o processedUsers
        key == cacheKey(rec.search, rec.caller)
    IN  IF ScanContinues(pageToken)
        THEN /\ Step(r, [rec EXCEPT !.st = "scanWait", !.allUsers = allUsers,
                                      !.token = pageToken, !.batch = <<>>,
                                      !.batchToken = undefined,
                                      !.calls = @ + 1])
             /\ UNCHANGED <<searchResultsCache, timers>>
        ELSE \E allSearchResults \in {SearchAllUsers(rec.search, allUsers)} :
             /\ searchResultsCache' = MapSet(searchResultsCache, key, allSearchResults)
             /\ timers' = timers \cup {[map |-> "searchResults", page |-> 0,
                                        key |-> key,
                                        due |-> TimeoutDue(now)]}
             /\ Step(r, RespondSearch([rec EXCEPT !.ops = @ \cup {"searchSet"}],
                                      allSearchResults))

\* auth.listUsers(1000, nextPageToken) of the scan settles.
ScanReturn(r, ok) ==
    /\ UNCHANGED <<started, visited, keyUsers, probe>>
    /\ req[r].st = "scanWait"
    /\ IF ~ok
       THEN /\ Step(r, ProviderError(req[r]))
            /\ UNCHANGED <<searchResultsCache, timers>>
       ELSE LET batch == listUsers(SCAN_BATCH, req[r].token)
            IN  IF AnyNeedsProfile(batch.users)
                THEN /\ Step(r, [req[r] EXCEPT !.st = "scanProject",
                                                !.batch = batch.users,
                                                !.batchToken = batch.pageToken])
                     /\ UNCHANGED <<searchResultsCache, timers>>
                ELSE ScanStep(r, batch.pageToken, ProcessBatch(batch.users, {}))
    /\ UNCHANGED <<pageTokensMap, now>>

\* Promise.all(userPromises) of a scan batch settles.
ScanProjected(r, failing) ==
    /\ UNCHANGED <<started, visited, keyUsers, probe>>
    /\ req[r].st = "scanProject"
    /\ failing \in FailChoices(req[r].batch)
    /\ ScanStep(r, req[r].batchToken, ProcessBatch(req[r].batch, failing))
    /\ UNCHANGED <<pageTokensMap, now>>

----------------------------------------------------------------------------
(* The pure functions of the handler, each behaviour of FnSpec calling one *)
(* of them once on inputs drawn from bounded sets.                         *)

NoProbe == [op |-> "none"]

\* A ranked list of T results, told apart by their place.
RankedList(T) == [i \in 1..T |-> i]

\* "Paginate search results" on a cached list of T results and page p.
Paginate(T, p) ==
    /\ probe = NoProbe
    /\ probe' = [op |-> "paginate", total |-> T, page |-> p,
                 out |-> RespondSearch([IdleReq EXCEPT !.page = p,
                                                       !.search = <<"anna">>],
                                       RankedList(T)).body[1]]
    /\ UNCHANGED <<pageTokensMap, searchResultsCache, timers, now, req, started,
                   visited, keyUsers, last>>

\* The batch projection of the records first..last of the population, with
\* the Profile Store read of at most one of them raising.
Project(first, last_, failing) ==
    LET batch == SubSeq(UserRecords, first, last_)
    IN  /\ probe = NoProbe
        /\ failing \in FailChoices(batch)
        /\ probe' = [op |-> "project", batch |-> batch, failing |-> failing,
                     out |-> ProcessBatch(batch, failing),
                     reads |-> {batch[i].uid :
                                  i \in {j \in 1..Len(batch) :
                                            ReadsStore(batch[j])}}]
        /\ UNCHANGED <<pageTokensMap, searchResultsCache, timers, now, req,
                       started, visited, keyUsers, last>>

\* The objects the search functions are called on: three users told by
\* their names, and one whose biography is a very long text that holds
\* every name.
SearchPool ==
    << Obj(<< <<"uid", Str(<<"u1">>)>>, <<"name", Str(<<"anna">>)>> >>),
       Obj(<< <<"uid", Str(<<"u2">>)>>, <<"name", Str(<<"anne">>)>> >>),
       Obj(<< <<"uid", Str(<<"u3">>)>>, <<"name", Str(<<"Bob">>)>> >>),
       Obj(<< <<"uid", Str(<<"u4">>)>>, <<"name", Str(<<"zed">>)>>,
              <<"bio", Str(<<"essay">>)>> >>) >>

\* The populations: the sequences of up to MaxPopulation different objects
\* of the pool, by their places in it.
Populations ==
    UNION { {p \in [1..n -> 1..Len(SearchPool)] :
                \A i, j \in 1..n : i # j => p[i] # p[j]} : n \in 0..MaxPopulation }

PopulationOf(p) == [i \in 1..Len(p) |-> SearchPool[p[i]]]

SearchTerms == {"anna", "anne", "bob", ""}
TermLists == UNION { [1..n -> SearchTerms] : n \in 0..MaxTerms }

\* SearchQuery(terms, population).
Search(terms, p) ==
    /\ probe = NoProbe
    /\ probe' = [op |-> "search", terms |-> terms, data |-> PopulationOf(p),
                 out |-> SearchQuery(terms, PopulationOf(p))]
    /\ UNCHANGED <<pageTokensMap, searchResultsCache, timers, now, req, started,
                   visited, keyUsers, last>>

\* performSearch(term, population).
SearchOneTerm(term, p) ==
    /\ probe = NoProbe
    /\ probe' = [op |-> "performSearch", term |-> term, data |-> PopulationOf(p),
                 out |-> performSearch(term, PopulationOf(p))]
    /\ UNCHANGED <<pageTokensMap, searchResultsCache, timers, now, req, started,
                   visited, keyUsers, last>>

\* The properties an object is given besides its name, each with a value
\* of its own.
Features ==
    << <<"token", Str(<<"secret">>)>>,
       <<"createdAt", TimestampOf("1700")>>,
       <<"password", Str(<<"hunter">>)>>,
       <<"birthDate", Str(<<"may">>)>>,
       <<"profile",
         Obj(<< <<"token", Str(<<"inner">>)>>,
                <<"address", Obj(<< <<"city", Str(<<"oslo">>)>>,
                                    <<"updatedAt", Str(<<"june">>)>> >>)>> >>)>>,
       <<"tags",
         Arr(<< Str(<<"red">>),
                Obj(<< <<"label", Str(<<"blue">>)>>,
                       <<"password", Str(<<"deep">>)>> >>) >>)>>,
       <<"seen", Arr(<< DateOf("xmas") >>)>>,
       <<"visits", Arr(<< TimestampOf("1800") >>)>>,
       <<"contacts", Arr(<< Obj(<< <<"name", Str(<<"carl">>)>> >>) >>)>> >>

RECURSIVE PickFeatures(_, _)
PickFeatures(i, chosen) ==
    IF i > Len(Features) THEN <<>>
    ELSE (IF i \in chosen THEN <<Features[i]>> ELSE <<>>)
         \o PickFeatures(i + 1, chosen)

ObjectWith(chosen) ==
    Obj(<< <<"name", Str(<<"Bob">>)>> >> \o PickFeatures(1, chosen))

\* The values under an excluded key or of an excluded type, and the
\* retained ones.
ExcludedWords ==
    {"secret", "1700", "hunter", "may", "inner", "june", "deep", "xmas", "1800"}
RetainedWords == {"bob", "oslo", "red", "blue", "carl"}

\* The retained values of ObjectWith(chosen): its name, and those of the
\* chosen properties.
RetainedOf(chosen) ==
    {"bob"} \cup (IF 5 \in chosen THEN {"oslo"} ELSE {})
            \cup (IF 6 \in chosen THEN {"red", "blue"} ELSE {})
            \cup (IF 9 \in chosen THEN {"carl"} ELSE {})

\* prepareSearchableObject(obj), and performSearch(word, [obj]) for every
\* word: whether the object is found.
FlattenAndSearch(chosen) ==
    /\ probe = NoProbe
    /\ probe' = [op |-> "flatten", chosen |-> chosen,
                 out |-> prepareSearchableObject(ObjectWith(chosen)),
                 found |-> [w \in ExcludedWords \cup RetainedWords |->
                              performSearch(w, <<ObjectWith(chosen)>>) # <<>>]]
    /\ UNCHANGED <<pageTokensMap, searchResultsCache, timers, now, req, started,
                   visited, keyUsers, last>>

----------------------------------------------------------------------------
(* userController.getUserData: the users of a list of ids.                 *)

\* The ids a request asks for: two of the population and one unknown to the
\* Identity Provider; req.query.ids split at the commas.
MaxIds == 2
UnknownUid == NumUsers + 1
RequestedIds == UNION { [1..n -> {1, 3, UnknownUid}] : n \in 0..MaxIds }

\* The identifiers bound in the module scope of userController.js: its
\* requires and its top-level consts and functions.  getUsersDataArr is
\* assigned as a property of exports only.
ModuleScope ==
    {"Timestamp", "auth", "admin", "firestore", "VALID_ROLES", "ADMIN_ROLE",
     "uid", "AddToDatabase", "SearchQuery", "uniqueID", "pageTokensMap",
     "searchResultsCache", "getProfileData", "processUserRecord",
     "isCacheValid", "cleanupCaches"}

\* auth.getUsers(identifiers): the records of the identifiers the provider
\* knows, each once, and the identifiers it does not know.
authGetUsers(identifiers) ==
    [users |-> SelectSeq(UserRecords,
                   LAMBDA u : \E i \in 1..Len(identifiers) :
                                  identifiers[i].uid = u.uid),
     notFound |-> SelectSeq(identifiers,
                      LAMBDA id : \A i \in 1..NumUsers :
                                      UserRecords[i].uid # id.uid)]

getUsersDataArr(ids) == [i \in 1..Len(ids) |-> [uid |-> ids[i]]]

\* getUsersBasedOnId(ids): evaluating the bare identifier getUsersDataArr
\* raises a ReferenceError, which rejects the promise before auth.getUsers
\* is called.
getUsersBasedOnId(ids) ==
    IF "getUsersDataArr" \in ModuleScope
    THEN [threw |-> FALSE, value |-> authGetUsers(getUsersDataArr(ids))]
    ELSE [threw |-> TRUE, value |-> "ReferenceError"]

\* The response of getUserData: 400 for a missing ids query, 200 with the
\* users and the uids not found, or the error handed to next().
GetUserDataResponse(ids) ==
    IF ids = <<>>
    THEN [status |-> 400, users |-> <<>>, notFound |-> <<>>]
    ELSE LET users == getUsersBasedOnId(ids)
         IN  IF users.threw
             THEN [status |-> 0, users |-> <<>>, notFound |-> <<>>]
             ELSE [status |-> 200,
                   users |-> [i \in 1..Len(users.value.users) |->
                                 users.value.users[i].uid],
                   notFound |-> [i \in 1..Len(users.value.notFound) |->
                                    users.value.notFound[i].uid]]

getUserData(ids) ==
    /\ probe = NoProbe
    /\ probe' = [op |-> "getUserData", ids |-> ids,
                 out |-> GetUserDataResponse(ids)]
    /\ UNCHANGED <<pageTokensMap, searchResultsCache, timers, now, req, started,
                   visited, keyUsers, last>>

----------------------------------------------------------------------------
(* updateUserAccount: delete, enable, disable, verify or falsify users.    *)

\* Object.values(COLLECTIONS); the admins collection is named by the
\* environment.
ADMIN_COLLECTION == "admins"
COLLECTIONS == {"users", DOCTOR_ROLE, PATIENT_ROLE, ADMIN_COLLECTION}

\* Whether the Identity Provider knows the uid: auth.getUser rejects if not.
KnownUid(uid) == \E i \in 1..NumUsers : UserRecords[i].uid = uid

IdsOf(ids) == {ids[i] : i \in 1..Len(ids)}

\* What an action does: the calls it makes on the Profile Store and the
\* Identity Provider, and the status it sends (200, or 500 from its catch).
deleteUser(ids) ==
    [calls |-> {[api |-> "batch.delete", uid |-> u, arg |-> c] :
                    u \in IdsOf(ids), c \in COLLECTIONS}
               \cup {[api |-> "auth.deleteUsers", uid |-> u, arg |-> ""] :
                        u \in IdsOf(ids)},
     status |-> 200]

disableEnable(enable, ids) ==
    [calls |-> {[api |-> "auth.updateUser", uid |-> u,
                 arg |-> IF enable THEN "disabled: false"
                                   ELSE "disabled: true"] :
                    u \in {x \in IdsOf(ids) : KnownUid(x)}},
     status |-> IF \A u \in IdsOf(ids) : KnownUid(u) THEN 200 ELSE 500]

verifyFalsify(verify, ids) ==
    [calls |-> {[api |-> "auth.setCustomUserClaims", uid |-> u,
                 arg |-> IF verify THEN "verified: true"
                                   ELSE "verified: false"] :
                    u \in {x \in IdsOf(ids) : KnownUid(x)}},
     status |-> IF \A u \in IdsOf(ids) : KnownUid(u) THEN 200 ELSE 500]

USER_ACTIONS == {"delete", "enable", "disable", "verify", "falsify"}

RunAction(action, ids) ==
    CASE action = "delete" -> deleteUser(ids)
      [] action = "enable" -> disableEnable(TRUE, ids)
      [] action = "disable" -> disableEnable(FALSE, ids)
      [] action = "verify" -> verifyFalsify(TRUE, ids)
      [] action = "falsify" -> verifyFalsify(FALSE, ids)

\* The actions a request body names: the five of USER_ACTIONS and one that
\* is none of them.
RequestedActions == USER_ACTIONS \cup {"promote"}

\* updateUserAccount: 422 for an unknown action; else isNotAdmin sends 403
\* to a caller who is no admin, its return value is not looked at, and
\* USER_ACTIONS[action](ids, res) is called.  A status sent after the 403
\* raises in res.send (the headers are sent) and reaches no client.
UpdateUserAccountOutcome(caller, action, ids) ==
    IF action \notin USER_ACTIONS
    THEN [res |-> <<422>>, calls |-> {}]
    ELSE LET done == RunAction(action, ids)
         IN  [res |-> IF isNotAdmin(caller) THEN <<403>> ELSE <<done.status>>,
              calls |-> done.calls]

updateUserAccount(caller, action, ids) ==
    /\ probe = NoProbe
    /\ probe' = [op |-> "updateUserAccount", caller |-> caller,
                 action |-> action, ids |-> ids,
                 out |-> UpdateUserAccountOutcome(caller, action, ids)]
    /\ UNCHANGED <<pageTokensMap, searchResultsCache, timers, now, req, started,
                   visited, keyUsers, last>>

----------------------------------------------------------------------------
(* userController.signUp: an account, its claims and its profile document. *)

MaxSignUps == 2

VALID_ROLES == {PATIENT_ROLE, DOCTOR_ROLE}

\* The e-mails and roles of the request bodies: the admin's e-mail and
\* another one; the two valid roles and one that is none of them.
ADMIN_EMAIL == "root@medjournal"
Emails == {ADMIN_EMAIL, "carl@medjournal"}
RequestedRoles == VALID_ROLES \cup {"nurse"}

\* The Identity Provider's accounts (by e-mail), their custom claims and the
\* Profile Store's documents, before any signUp.
NoAccounts == [accounts |-> {}, claims |-> {}, docs |-> {}, count |-> 0]

\* The accounts, claims and documents the sign-ups so far have left.
SignUpState ==
    IF probe.op = "signUp"
    THEN [accounts |-> probe.accounts, claims |-> probe.claims,
          docs |-> probe.docs, count |-> probe.count]
    ELSE NoAccounts

\* signUp(req, res, next) on the state st: admin.auth().createUser first
\* (it rejects for an e-mail that has an account: next(error), status 0),
\* then the role test: 422 for a role outside VALID_ROLES; else the profile
\* document (not for an e-mail that includes ADMIN_EMAIL), the claims, 201.
SignUpOutcome(st, email, role) ==
    IF email \in st.accounts
    THEN [res |-> 0, accounts |-> st.accounts, claims |-> st.claims,
          docs |-> st.docs]
    ELSE LET created == st.accounts \cup {email}
         IN  IF role \notin VALID_ROLES
             THEN [res |-> 422, accounts |-> created, claims |-> st.claims,
                   docs |-> st.docs]
             ELSE IF email = ADMIN_EMAIL
             THEN [res |-> 201, accounts |-> created,
                   claims |-> st.claims
                       \cup {[email |-> email, role |-> ADMIN_ROLE,
                               admin |-> TRUE]},
                   docs |-> st.docs]
             ELSE [res |-> 201, accounts |-> created,
                   claims |-> st.claims
                       \cup {[email |-> email, role |-> role,
                               admin |-> FALSE]},
                   docs |-> st.docs \cup {[collection |-> role,
                                            email |-> email]}]

signUp(email, role) ==
    /\ probe = NoProbe \/ probe.op = "signUp"
    /\ SignUpState.count < MaxSignUps
    /\ LET out == SignUpOutcome(SignUpState, email, role)
       IN  probe' = [op |-> "signUp", email |-> email, role |-> role,
                     res |-> out.res, accounts |-> out.accounts,
                     claims |-> out.claims, docs |-> out.docs,
                     count |-> SignUpState.count + 1]
    /\ UNCHANGED <<pageTokensMap, searchResultsCache, timers, now, req, started,
                   visited, keyUsers, last>>

----------------------------------------------------------------------------
(* Timers and the clock.                                                   *)

\* A setTimeout callback runs: pageTokensMap.delete(page + 1) or
\* searchResultsCache.delete(cacheKey), whatever the entry now holds.
\* A listing that is suspended projecting its records notes (history, in
\* ops) that the callback ran for the page after its own.
TimerFire(t) ==
    /\ UNCHANGED <<started, visited, keyUsers, probe>>
    /\ t \in timers
    /\ now >= t.due
    /\ timers' = timers \ {t}
    /\ IF t.map = "pageTokens"
       THEN /\ pageTokensMap' = MapDelete(pageTokensMap, t.page)
            /\ req' = [r \in Reqs |->
                         IF req[r].st = "projecting"
                            /\ NextPageKey(req[r].page) = t.page
                         THEN [req[r] EXCEPT !.ops = @ \cup {"nextPageEvicted"}]
                         ELSE req[r]]
            /\ UNCHANGED searchResultsCache
       ELSE /\ searchResultsCache' = MapDelete(searchResultsCache, t.key)
            /\ UNCHANGED <<pageTokensMap, req>>
    /\ last' = IdleReq
    /\ UNCHANGED now

\* value.timestamp of a cache entry.  The caches hold the bare result list
\* (an Array) and the bare page token (a string), as they were set: neither
\* has a timestamp property.
timestamp(value) == undefined

\* now - value.timestamp > 5 * 60 * 1000 in cleanupCaches.  With an undefined
\* timestamp the difference is NaN and the comparison is false.
SweepExpired(value, t) ==
    IF timestamp(value) = undefined THEN FALSE
    ELSE t - timestamp(value)[1] > TTL

\* setInterval(cleanupCaches, 5 * 60 * 1000).
cleanupCaches ==
    /\ UNCHANGED <<started, visited, keyUsers, probe>>
    /\ now > 0
    /\ now % TTL = 0
    /\ searchResultsCache' =
          [k \in {x \in DOMAIN searchResultsCache :
                    ~SweepExpired(searchResultsCache[x], now)}
             |-> searchResultsCache[k]]
    /\ pageTokensMap' =
          [k \in {x \in DOMAIN pageTokensMap :
                    ~SweepExpired(pageTokensMap[x], now)}
             |-> pageTokensMap[k]]
    /\ last' = [IdleReq EXCEPT !.st = "swept"]
    /\ UNCHANGED <<timers, now, req>>

\* Time passes.  A timer callback that is due runs within its tick.
Tick ==
    /\ UNCHANGED <<started, visited, keyUsers, probe>>
    /\ now < MaxTime
    /\ \A t \in timers : t.due > now
    /\ now' = now + 1
    /\ last' = IdleReq
    /\ UNCHANGED <<pageTokensMap, searchResultsCache, timers, req>>

----------------------------------------------------------------------------

Init ==
    /\ pageTokensMap = EmptyMap
    /\ searchResultsCache = EmptyMap
    /\ timers = {}
    /\ now = 0
    /\ req = [r \in Reqs |-> IdleReq]
    /\ last = IdleReq
    /\ started = 0
    /\ visited = {}
    /\ keyUsers = EmptyMap
    /\ probe = NoProbe

Next ==
    \/ \E r \in Reqs, caller \in Callers, page \in Pages, search \in Searches :
          Start(r, caller, page, search)
    \/ \E r \in Reqs, ok \in BOOLEAN : ListReturn(r, ok)
    \/ \E r \in Reqs, failing \in SUBSET (1..NumUsers) : ListProjected(r, failing)
    \/ \E r \in Reqs, ok \in BOOLEAN : ScanReturn(r, ok)
    \/ \E r \in Reqs, failing \in SUBSET (1..NumUsers) : ScanProjected(r, failing)
    \/ \E t \in timers : TimerFire(t)
    \/ cleanupCaches
    \/ Tick

Spec == Init /\ [][Next]_vars

FnNext ==
    \/ \E T \in 0..MaxTotal, p \in 0..(MaxPage + 1) : Paginate(T, p)
    \/ \E first \in 1..NumUsers, last_ \in 1..NumUsers,
          failing \in SUBSET (1..NumUsers) : Project(first, last_, failing)
    \/ \E terms \in TermLists, p \in Populations : Search(terms, p)
    \/ \E term \in SearchTerms, p \in Populations : SearchOneTerm(term, p)
    \/ \E chosen \in SUBSET (1..Len(Features)) : FlattenAndSearch(chosen)
    \/ \E ids \in RequestedIds : getUserData(ids)
    \/ \E caller \in Callers, action \in RequestedActions, ids \in RequestedIds :
          updateUserAccount(caller, action, ids)
    \/ \E email \in Emails, role \in RequestedRoles : signUp(email, role)

FnSpec == Init /\ [][FnNext]_vars

----------------------------------------------------------------------------
(* Properties.                                                             *)

\* A step that receives a request, and that request as the step leaves it
\* (finished at once, or suspended in its slot).
Receives == started' = started + 1
Received ==
    IF last'.st = "done" THEN last'
    ELSE req'[CHOOSE r \in Reqs : req[r].st = "idle" /\ req'[r].st # "idle"]

\* A pending eviction callback that is not yet due shows that its key was
\* stored less than TTL ago.
StoredWithinTTL(map, key) ==
    \E t \in timers :
        /\ t.map = map
        /\ IF map = "pageTokens" THEN t.page = key ELSE t.key = key
        /\ t.due > now

\* The users of a 200 payload, as views.
BodyUsers(rec) ==
    IF rec.body = <<>> THEN <<>>
    ELSE [i \in 1..Len(rec.body[1].users) |->
            IF rec.search = <<>> THEN rec.body[1].users[i]
            ELSE rec.body[1].users[i].item]

FinishedListing == last.st = "done" /\ last.search = <<>>
FinishedSearch == last.st = "done" /\ last.search # <<>>

\* C1: a listing request for a page other than 0 whose page has no entry in
\* pageTokensMap is answered with 400 Invalid Page in the step that receives
\* it (an admin caller gets exactly that response), without any
\* auth.listUsers call and without a write to either cache.
C1_InvalidPage ==
    [][ (/\ Receives
         /\ Received.search = <<>>
         /\ Received.page # 0
         /\ ~MapHas(pageTokensMap, Received.page))
        => (/\ Received.st = "done"
            /\ \E i \in 1..Len(Received.res) : Received.res[i] = 400
            /\ \A i \in 1..Len(Received.res) : Received.res[i] # 200
            /\ (Received.caller = ADMIN_ROLE => Received.res = <<400>>)
            /\ Received.calls = 0
            /\ UNCHANGED <<pageTokensMap, searchResultsCache, timers>>) ]_vars

\* C1 witness: an admin's request for page 2 found no token and got 400
\* while another page's token is cached.
C1_Witness ==
    /\ FinishedListing
    /\ last.caller = ADMIN_ROLE
    /\ last.page = 2
    /\ last.res = <<400>>
    /\ last.calls = 0
    /\ ~MapHas(pageTokensMap, 2)
    /\ MapHas(pageTokensMap, 1)

\* C2: a request of a caller who is not an admin ends with the single
\* response 403 Forbidden and has made no auth.listUsers call and no read or
\* write of either cache.
C2_ForbiddenIsTerminal ==
    (last.st = "done" /\ last.caller # ADMIN_ROLE)
    => (last.res = <<403>> /\ last.calls = 0 /\ last.ops = {})

\* C3: every finished request has tried to send exactly one response.
C3_ExactlyOneResponse ==
    last.st = "done" => Len(last.res) = 1

\* C4: a page token stays in pageTokensMap until TTL has passed since the
\* call that stored it: while a store of page k is less than TTL old, page k
\* has an entry.
C4_TokenHeldUntilTTL ==
    \A t \in timers :
        (t.map = "pageTokens" /\ t.due > now) => MapHas(pageTokensMap, t.page)

\* C5: pageTokensMap holds a token for page k only if a listing request for
\* page k - 1 has been received, and a listing request for a page whose
\* predecessor was never requested is answered 400 Invalid Page without a
\* provider call.
C5_NoJumpAhead ==
    /\ \A k \in DOMAIN pageTokensMap : (k - 1) \in visited
    /\ (FinishedListing /\ last.page # 0 /\ (last.page - 1) \notin visited)
        => (/\ last.calls = 0
            /\ last.body = <<>>
            /\ \E i \in 1..Len(last.res) : last.res[i] = 400
            /\ (last.caller = ADMIN_ROLE => last.res = <<400>>))

\* C5 witness: page 0 was listed (its next token is cached), page 1 was never
\* requested, and the request for page 2 got 400.
C5_Witness ==
    /\ FinishedListing
    /\ last.page = 2
    /\ last.res = <<400>>
    /\ visited = {0, 2}
    /\ MapHas(pageTokensMap, 1)

\* C6: a listing request that reads a pageTokensMap entry stored TTL or more
\* ago treats it as absent and answers 400 Invalid Page, without a provider
\* call.
C6_LazyExpiryOnRead ==
    [][ (/\ Receives
         /\ Received.search = <<>>
         /\ Received.page # 0
         /\ MapHas(pageTokensMap, Received.page)
         /\ ~StoredWithinTTL("pageTokens", Received.page))
        => (/\ Received.st = "done"
            /\ \E i \in 1..Len(Received.res) : Received.res[i] = 400
            /\ Received.calls = 0) ]_vars

\* C7: a search request received less than TTL after a result was stored
\* under its key is answered from searchResultsCache and makes no
\* auth.listUsers call.
C7_SearchIdempotence ==
    [][ (/\ Receives
         /\ Received.search # <<>>
         /\ StoredWithinTTL("searchResults",
                            cacheKey(Received.search, Received.caller)))
        => (Received.st = "done" /\ Received.calls = 0) ]_vars

\* The scope of a caller: unrestricted for an admin, else restricted to the
\* caller's role.
ScopeOf(caller) == IF caller = ADMIN_ROLE THEN "unrestricted" ELSE caller

\* C8: the requests that read or write one searchResultsCache key all have
\* the same scope.
C8_KeySeparatesScopes ==
    \A k \in DOMAIN keyUsers :
        \A c1, c2 \in keyUsers[k] : ScopeOf(c1) = ScopeOf(c2)

\* The complementary role of a restricted caller in the two-sided directory.
ComplementaryRole(role) == IF role = DOCTOR_ROLE THEN PATIENT_ROLE ELSE DOCTOR_ROLE

RECURSIVE ValidUids(_)
ValidUids(users) ==
    IF users = <<>> THEN <<>>
    ELSE (IF Head(users).metadata THEN <<Head(users).uid>> ELSE <<>>)
         \o ValidUids(Tail(users))

ListingCallSucceeds(r) ==
    /\ req[r].st = "listWait"
    /\ req'[r].st # "listWait"
    /\ ~(last'.st = "done" /\ last'.res[Len(last'.res)] = 500 /\ last'.body = <<>>)

\* The token the provider's cursor chain gives for the page after p, if any.
ChainToken(p) ==
    IF (p + 1) * PAGE_SIZE < NumUsers THEN Token((p + 1) * PAGE_SIZE) ELSE undefined

\* C11: an admin's listing of page p that succeeds makes exactly one
\* auth.listUsers call; when that call returns a token, pageTokensMap maps
\* p + 1 to exactly that token right after it, and when it returns none the
\* request leaves pageTokensMap as it was.
C11_TokenStoredUnderNextPage ==
    [][ /\ \A r \in Reqs :
              (ListingCallSucceeds(r) /\ req[r].caller = ADMIN_ROLE)
              => (/\ req[r].calls = 1
                  /\ IF ChainToken(req[r].page) # undefined
                     THEN /\ MapHas(pageTokensMap', req[r].page + 1)
                          /\ pageTokensMap'[req[r].page + 1] = ChainToken(req[r].page)
                          /\ \A k \in DOMAIN pageTokensMap \ {req[r].page + 1} :
                                 /\ MapHas(pageTokensMap', k)
                                 /\ pageTokensMap'[k] = pageTokensMap[k]
                     ELSE pageTokensMap' = pageTokensMap)
        /\ (last'.st = "done" /\ last'.search = <<>> /\ last'.caller = ADMIN_ROLE
             /\ last'.res = <<200>>)
            => (/\ last'.calls = 1
                /\ ("tokenSet" \in last'.ops) = (ChainToken(last'.page) # undefined)) ]_vars

\* C11 witness: an admin's listing of page 1 was served after one provider
\* call and page 2 holds the token that call returned.
C11_Witness ==
    /\ FinishedListing
    /\ last.caller = ADMIN_ROLE
    /\ last.page = 1
    /\ last.res = <<200>>
    /\ last.calls = 1
    /\ "tokenSet" \in last.ops
    /\ MapHas(pageTokensMap, 2)
    /\ pageTokensMap[2] = Token(2 * PAGE_SIZE)

\* C12: the pageTokens array of a served listing of page p has the indices
\* 0..p+1 (length p + 2) and its entry i tells whether pageTokensMap holds a
\* token for page i when the array is built, which is the step that sends
\* the response.
C12_PageTokensIndicator ==
    (FinishedListing /\ last.res = <<200>>)
    => (/\ DOMAIN last.body[1].pageTokens = 0..(last.page + 1)
        /\ Cardinality(DOMAIN last.body[1].pageTokens) = last.page + 2
        /\ \A i \in 0..(last.page + 1) :
              last.body[1].pageTokens[i] = (i \in DOMAIN pageTokensMap))

\* C12 witness: a served listing of page 1 whose own token was evicted while
\* the request was in flight: entry 1 is false, entry 2 is true.
C12_Witness ==
    /\ FinishedListing
    /\ last.res = <<200>>
    /\ last.page = 1
    /\ ~last.body[1].pageTokens[0]
    /\ ~last.body[1].pageTokens[1]
    /\ last.body[1].pageTokens[2]

\* C13: for a cached ranked list of T results and a page p >= 0 the search
\* response holds exactly the results at the 0-based places
\* [p * PAGE_SIZE, min(p * PAGE_SIZE + PAGE_SIZE, T)) in cached order, with
\* totalCount = T, totalPages the least n with n * PAGE_SIZE >= T, and
\* hasNextPage true iff p * PAGE_SIZE + PAGE_SIZE < T.
C13_PaginationSlice ==
    probe.op = "paginate"
    => LET T == probe.total
           lo == probe.page * PAGE_SIZE
           hi == Min(lo + PAGE_SIZE, T)
           out == probe.out
       IN  /\ Len(out.users) = Max(hi - lo, 0)
           /\ \A k \in 1..Len(out.users) : out.users[k] = RankedList(T)[lo + k]
           /\ out.totalCount = T
           /\ out.totalPages * PAGE_SIZE >= T
           /\ (out.totalPages - 1) * PAGE_SIZE < T
           /\ out.hasNextPage = (lo + PAGE_SIZE < T)

\* C13 witness: the last, partly filled page of a list of MaxTotal results: it
\* is not empty, shorter than PAGE_SIZE, ends the list and has no next page.
C13_Witness ==
    /\ probe.op = "paginate"
    /\ probe.total = MaxTotal
    /\ probe.page > 0
    /\ probe.out.users # <<>>
    /\ Len(probe.out.users) < PAGE_SIZE
    /\ probe.out.users[Len(probe.out.users)] = MaxTotal
    /\ ~probe.out.hasNextPage
    /\ probe.out.totalPages = probe.page + 1

\* C14 as claimed: a record whose profile fetch raises is not in the
\* projected batch.
C14_FetchErrorDropsRecord ==
    probe.op = "project"
    => \A u \in probe.failing :
          \A i \in 1..Len(probe.out) : probe.out[i].uid # u

\* The profile a well-formed record is projected with.
ExpectedProfile(userRecord, fetchFails) ==
    IF userRecord.role = "" \/ userRecord.admin THEN "unset"
    ELSE IF fetchFails \/ ProfileStore[userRecord.uid] = "absent" THEN "null"
         ELSE ProfileStore[userRecord.uid]

\* C14 amended: a record whose profile fetch raises stays in the projected
\* batch, with a null profile; the batch holds every record that has its
\* metadata, in provider order, the others with the profile the store
\* holds for them, and only a record whose own projection throws is dropped.
C14_FetchErrorGivesNullProfile ==
    probe.op = "project"
    => LET batch == probe.batch
           out == probe.out
           kept == ValidUids(batch)
       IN  /\ Len(out) = Len(kept)
           /\ \A i \in 1..Len(out) :
                 \E j \in 1..Len(batch) :
                    /\ batch[j].uid = kept[i]
                    /\ out[i].uid = batch[j].uid
                    /\ out[i].displayName = batch[j].displayName
                    /\ out[i].role = batch[j].role
                    /\ out[i].isAdmin = batch[j].admin
                    /\ out[i].profile =
                          ExpectedProfile(batch[j], batch[j].uid \in probe.failing)

\* C14 witness: a batch of three well-formed records, the first one's
\* profile fetch raising: all three are projected, the first with a null
\* profile although the store holds a document for it.
C14_Witness ==
    /\ probe.op = "project"
    /\ Len(probe.batch) = 3
    /\ probe.failing = {probe.batch[1].uid}
    /\ ProfileStore[probe.batch[1].uid] # "absent"
    /\ Len(probe.out) = 3
    /\ probe.out[1].profile = "null"
    /\ probe.out[3].profile = ProfileStore[probe.batch[3].uid]

\* C15: the users of every served listing and the entries of every cached
\* search result are never null; a listing holds the records of its
\* provider page whose projection succeeded and no other, in provider order.
C15_NoNullInOutput ==
    /\ (FinishedListing /\ last.res = <<200>>)
        => LET users == last.body[1].users
               page == listUsers(PAGE_SIZE, IF last.page = 0 THEN undefined
                                           ELSE Token(last.page * PAGE_SIZE)).users
           IN  /\ \A i \in 1..Len(users) : users[i] # null
               /\ \A i, j \in 1..Len(users) :
                     i < j => \E a, b \in 1..Len(page) :
                                 /\ a < b
                                 /\ page[a].uid = users[i].uid
                                 /\ page[b].uid = users[j].uid
               /\ \A a \in 1..Len(page) :
                     page[a].metadata
                     <=> \E i \in 1..Len(users) : users[i].uid = page[a].uid
    /\ \A k \in DOMAIN searchResultsCache :
          \A i \in 1..Len(searchResultsCache[k]) :
             searchResultsCache[k][i].item # null

\* C15 witness: a served listing whose provider page held a record that
\* could not be projected, while a search result is cached.
C15_Witness ==
    /\ FinishedListing
    /\ last.res = <<200>>
    /\ last.page = 1
    /\ Len(last.body[1].users) = 1
    /\ last.body[1].users[1].uid = 3
    /\ DOMAIN searchResultsCache # {}

\* The hits of all the terms, one term after the other: what the merge of
\* SearchQuery sees.
SeenHits(terms, data) == FlatMapSearch(FilterTerms(terms), data)

\* The place at which the object at idx is first seen among the hits.
FirstSeen(hits, idx) ==
    CHOOSE i \in 1..Len(hits) :
        hits[i].idx = idx /\ \A j \in 1..(i - 1) : hits[j].idx # idx

\* C16: the result of SearchQuery has at most one entry per user id, has an
\* entry for every user some term hit, each with the highest score the user
\* got from any term; the entries are in order of non-increasing score, and
\* of two entries of equal score the one whose user was seen first among
\* the terms' hits comes first.
C16_MergedRanking ==
    probe.op = "search"
    => LET out == probe.out
           data == probe.data
           seen == SeenHits(probe.terms, data)
       IN  /\ \A i, j \in 1..Len(out) :
                 i # j => PropOf(data[out[i].idx], "uid") # PropOf(data[out[j].idx], "uid")
           /\ \A k \in 1..Len(seen) : \E i \in 1..Len(out) : out[i].idx = seen[k].idx
           /\ \A i \in 1..Len(out) :
                 /\ \E k \in 1..Len(seen) :
                       seen[k].idx = out[i].idx /\ seen[k].searchScore = out[i].searchScore
                 /\ \A k \in 1..Len(seen) :
                       seen[k].idx = out[i].idx => seen[k].searchScore <= out[i].searchScore
           /\ \A i, j \in 1..Len(out) :
                 i < j => /\ out[i].searchScore >= out[j].searchScore
                          /\ out[i].searchScore = out[j].searchScore
                             => FirstSeen(seen, out[i].idx) < FirstSeen(seen, out[j].idx)

\* C16 witness: a user first seen with a low score and later with the
\* highest one is ranked before a user of the same final score that was seen
\* in between, and once only.
C16_Witness ==
    /\ probe.op = "search"
    /\ Len(probe.out) = 2
    /\ probe.out[1].searchScore = probe.out[2].searchScore
    /\ LET seen == SeenHits(probe.terms, probe.data)
       IN  /\ Len(seen) = 3
           /\ seen[1].idx = probe.out[1].idx
           /\ seen[1].searchScore < probe.out[1].searchScore
           /\ seen[2].idx = probe.out[2].idx
           /\ seen[3].idx = probe.out[1].idx

\* The hits of the primary matcher for a term.
PrimaryHits(term, data) ==
    SortByScore(ScoreAll(toLowerCase(term), PrepareAll(data), 1))

\* C17: when the primary matcher has a hit for the term, the result of
\* performSearch is exactly its hits; when it has none, the result is the
\* objects one of whose fields includes the term, in population order, each
\* with score 0.
C17_FallbackOnlyWhenNoHit ==
    probe.op = "performSearch"
    => LET out == probe.out
           primary == PrimaryHits(probe.term, probe.data)
           searchable == PrepareAll(probe.data)
       IN  /\ primary # <<>> => out = primary
           /\ primary = <<>>
              => /\ \A i \in 1..Len(out) :
                       /\ out[i].searchScore = 0
                       /\ probe.term # ""
                       /\ SubstringHit(toLowerCase(probe.term), searchable[out[i].idx])
                 /\ \A i, j \in 1..Len(out) : i < j => out[i].idx < out[j].idx
                 /\ \A k \in 1..Len(searchable) :
                       (probe.term # ""
                        /\ SubstringHit(toLowerCase(probe.term), searchable[k]))
                       => \E i \in 1..Len(out) : out[i].idx = k

\* C17 witness: the primary matcher hit one object, and another object that
\* the substring check would accept is not in the result.
C17_Witness ==
    /\ probe.op = "performSearch"
    /\ Len(probe.out) = 1
    /\ probe.out = PrimaryHits(probe.term, probe.data)
    /\ \E k \in 1..Len(probe.data) :
          /\ k # probe.out[1].idx
          /\ SubstringHit(toLowerCase(probe.term), PrepareAll(probe.data)[k])

\* C18: a value under a key named password or token, under a key whose name
\* contains "date", or of Date or Timestamp type, at any depth and inside
\* arrays too, is in no searchable field of the object, and a search for it
\* does not find the object, while a search for the lower-cased name does
\* (when no array item of the object has a name of its own).
C18_FlattenExclusions ==
    probe.op = "flatten"
    => /\ \A w \in ExcludedWords :
             /\ \A i \in 1..Len(probe.out) :
                   \A j \in 1..Len(probe.out[i].value) : probe.out[i].value[j] # w
             /\ ~probe.found[w]
       /\ "carl" \notin RetainedOf(probe.chosen) => probe.found["bob"]

\* C19: the step in which an auth.listUsers call of a listing or of a search
\* scan is rejected ends the request: the handler sends 500 (the only
\* response of an admin's request), builds no payload, has issued no call
\* beyond the rejected one and writes neither cache; no request goes on
\* after a rejected call.
C19_ProviderErrorNotRetried ==
    [][ /\ \A r \in Reqs : "providerError" \notin req'[r].ops
        /\ \A r \in Reqs :
              (/\ req[r].st \in {"listWait", "scanWait"}
               /\ req'[r] # req[r]
               /\ last'.st = "done"
               /\ "providerError" \in last'.ops)
              => (/\ last'.res[Len(last'.res)] = 500
                  /\ last'.caller = ADMIN_ROLE => last'.res = <<500>>
                  /\ last'.body = <<>>
                  /\ last'.calls = req[r].calls
                  /\ UNCHANGED <<pageTokensMap, searchResultsCache, timers>>) ]_vars

\* C19 witness: an admin's search whose second scan call was rejected ended
\* with 500 after two calls, with nothing cached.
C19_Witness ==
    /\ FinishedSearch
    /\ last.caller = ADMIN_ROLE
    /\ "providerError" \in last.ops
    /\ last.calls = 2
    /\ last.res = <<500>>
    /\ DOMAIN searchResultsCache = {}

\* C20: a request that ends with an error response (403, 400 or 500) has not
\* written pageTokensMap: only a request that is served writes it.
C20_OnlyServedRequestsWrite ==
    (last.st = "done" /\ "tokenSet" \in last.ops) => last.res = <<200>>

\* C21: getUserData with a non-empty list of ids answers 200 with the pair
\* {users, notFound}, and every requested id is either the uid of a found
\* user or in notFound, never both.
C21_EveryIdFoundOrNotFound ==
    (probe.op = "getUserData" /\ probe.ids # <<>>) =>
        /\ probe.out.status = 200
        /\ \A i \in 1..Len(probe.ids) :
              (\E j \in 1..Len(probe.out.users) :
                   probe.out.users[j] = probe.ids[i])
              # (\E j \in 1..Len(probe.out.notFound) :
                     probe.out.notFound[j] = probe.ids[i])

\* C22: updateUserAccount makes a call on the Identity Provider or the
\* Profile Store only for a caller with the admin role: for any other caller
\* no user is deleted or modified.
C22_OnlyAdminsUpdateAccounts ==
    (probe.op = "updateUserAccount" /\ probe.caller # ADMIN_ROLE) =>
        probe.out.calls = {}

\* The step just taken was a run of cleanupCaches.
Swept == last'.st = "swept"

\* C23: a run of the periodic sweep removes every entry of pageTokensMap and
\* of searchResultsCache whose TTL has elapsed (no write of its key is
\* younger than TTL), and leaves every younger entry in place.
C23_SweepRemovesExpired ==
    [][Swept =>
         /\ \A page \in DOMAIN pageTokensMap :
               (page \in DOMAIN pageTokensMap')
                   <=> StoredWithinTTL("pageTokens", page)
         /\ \A key \in DOMAIN searchResultsCache :
               (key \in DOMAIN searchResultsCache')
                   <=> StoredWithinTTL("searchResults", key)]_vars

\* An eviction callback for the key is still to run.
EvictionPending(map, key) ==
    \E t \in timers :
        /\ t.map = map
        /\ IF map = "pageTokens" THEN t.page = key ELSE t.key = key

\* C24: every entry of pageTokensMap and of searchResultsCache carries the
\* time it was stored at, and is gone once its scheduled eviction has run: an
\* entry that is present has an eviction callback still to run.
C24_StoredWithTimeAndEvicted ==
    /\ \A page \in DOMAIN pageTokensMap :
          /\ timestamp(pageTokensMap[page]) # undefined
          /\ EvictionPending("pageTokens", page)
    /\ \A key \in DOMAIN searchResultsCache :
          /\ timestamp(searchResultsCache[key]) # undefined
          /\ EvictionPending("searchResults", key)

\* The uids of a list of views.
UidsOf(views) == [i \in 1..Len(views) |-> views[i].uid]

\* The ranked list as uids with their scores.
RankedUids(hits) ==
    [i \in 1..Len(hits) |-> <<hits[i].item.uid, hits[i].searchScore>>]

\* C25: a scan follows the page tokens from the start of the population to
\* its end.  While it runs, allUsers holds the projections of exactly the
\* records before its page token, each once and in provider order, and it
\* has made one auth.listUsers call per batch; it ends after the last batch
\* of the population, and the list it stores is the search over the whole
\* population.
C25_ScanCoversPopulation ==
    /\ \A r \in Reqs :
          req[r].st \in {"scanWait", "scanProject"} =>
              /\ UidsOf(req[r].allUsers) =
                     ValidUids(SubSeq(UserRecords, 1, OffsetOf(req[r].token)))
              /\ OffsetOf(req[r].token) < Max(NumUsers, 1)
              /\ (req[r].calls - 1) * SCAN_BATCH = OffsetOf(req[r].token)
    /\ (last.st = "done" /\ "searchSet" \in last.ops) =>
          /\ last.calls = Max(Ceil(NumUsers, SCAN_BATCH), 1)
          /\ RankedUids(searchResultsCache[cacheKey(last.search, last.caller)])
                = RankedUids(SearchUsers(last.search,
                                         ProcessBatch(UserRecords, {})))

\* A scan of more than one batch has ended and stored a list with a hit.
C25_Witness ==
    /\ last.st = "done"
    /\ "searchSet" \in last.ops
    /\ last.calls > 1
    /\ last.calls = Ceil(NumUsers, SCAN_BATCH)
    /\ searchResultsCache[cacheKey(last.search, last.caller)] # <<>>

\* C26: in every projected batch a view has a profile document only if its
\* role is set and it is no admin; the view of an admin record, the one with
\* the claims admin = true and role = ADMIN_ROLE that signUp gives the admin
\* e-mail included, has no profile property, and its projection makes no
\* read of the Profile Store.
C26_NoProfileForAdmins ==
    probe.op = "project" =>
        /\ \A i \in 1..Len(probe.out) :
              /\ probe.out[i].profile \notin {"unset", "null"}
                    => (probe.out[i].role # "" /\ ~probe.out[i].isAdmin)
              /\ probe.out[i].isAdmin => probe.out[i].profile = "unset"
        /\ \A j \in 1..Len(probe.batch) :
              (probe.batch[j].admin \/ probe.batch[j].role \in {"", ADMIN_ROLE})
                  => probe.batch[j].uid \notin probe.reads

\* A batch with the admin of signUp and a doctor: the doctor's view has the
\* document of the store, the admin's has none, and only the doctor's
\* document was read.
C26_Witness ==
    /\ probe.op = "project"
    /\ Len(probe.out) = 2
    /\ probe.batch[1].role = DOCTOR_ROLE
    /\ probe.out[1].profile = ProfileStore[probe.batch[1].uid]
    /\ probe.batch[2].role = ADMIN_ROLE /\ probe.batch[2].admin
    /\ probe.out[2].isAdmin /\ probe.out[2].profile = "unset"
    /\ probe.reads = {probe.batch[1].uid}

\* C27: the all field of a flattened object holds every retained value of
\* the object: its lower-cased name, and the string values of its nested
\* objects and of the items of its arrays, whatever the names of the fields
\* of the array items.
C27_AllHoldsEveryRetainedValue ==
    probe.op = "flatten" =>
        \A w \in RetainedOf(probe.chosen) :
            \E j \in 1..Len(AllOf(probe.out)) : AllOf(probe.out)[j] = w

\* Slot r ends its scan in this step and stores its result.
StoresScan(r) ==
    /\ req[r].st \in {"scanWait", "scanProject"}
    /\ req'[r].st = "idle"
    /\ "searchSet" \in last'.ops

\* C28: a request that ends its scan stores its own result under its key,
\* whatever the cache held there before (a request that missed on the same
\* key at the same time may have stored its result already): after the step
\* the one entry of the key is the search over the list this request
\* gathered, the request answers from it, no other entry changes, and the
\* other request in flight is left as it is.
C28_LastWriteWins ==
    [][\A r \in Reqs :
         StoresScan(r) =>
           LET key == cacheKey(req[r].search, req[r].caller)
               page == last'.body[1]
               startIndex == req[r].page * PAGE_SIZE
           IN  /\ key \in DOMAIN searchResultsCache'
               /\ \E u \in ScanOutcomes(undefined) :
                     /\ Len(u) >= Len(req[r].allUsers)
                     /\ SubSeq(u, 1, Len(req[r].allUsers)) = req[r].allUsers
                     /\ searchResultsCache'[key]
                           = SearchAllUsers(req[r].search, u)
               /\ page.totalCount = Len(searchResultsCache'[key])
               /\ page.users = Slice(searchResultsCache'[key], startIndex,
                                     startIndex + PAGE_SIZE)
               /\ DOMAIN searchResultsCache'
                     = DOMAIN searchResultsCache \cup {key}
               /\ \A k \in DOMAIN searchResultsCache \ {key} :
                     searchResultsCache'[k] = searchResultsCache[k]
               /\ \A q \in Reqs \ {r} : req'[q] = req[q]]_vars

\* Two requests missed on the same key at the same time and both stored
\* their results, the second one a tick after the first: the entry of the
\* first write was still held when the second request stored its own.
C28_Witness ==
    /\ last.st = "done"
    /\ "searchSet" \in last.ops
    /\ last.res = <<200>>
    /\ LET key == cacheKey(last.search, last.caller)
       IN  /\ key \in DOMAIN searchResultsCache
           /\ last.body[1].totalCount = Len(searchResultsCache[key])
           /\ Cardinality({t \in timers : t.map = "searchResults"
                                           /\ t.key = key /\ t.due > now}) = 2

\* Slot r's listing is answered in this step with a payload.
AnswersListing(r) ==
    /\ req[r].st \in {"listWait", "projecting"}
    /\ req'[r].st = "idle"
    /\ last'.body # <<>>

\* C29: the payload of a listing holds at most PAGE_SIZE users, and its
\* hasNextPage is true exactly when the auth.listUsers call that served the
\* page returned a page token.
C29_PageSizeAndHasNextPage ==
    [][\A r \in Reqs :
         AnswersListing(r) =>
           /\ Len(last'.body[1].users) <= PAGE_SIZE
           /\ last'.body[1].totalCount = Len(last'.body[1].users)
           /\ last'.body[1].hasNextPage
                 = (listUsers(PAGE_SIZE, req[r].token).pageToken # undefined)]_vars

\* An admin was served the last page of the population: a page after the
\* first, with a user, and no next page.
C29_Witness ==
    /\ FinishedListing
    /\ last.res = <<200>>
    /\ last.page > 0
    /\ last.body[1].users # <<>>
    /\ ~last.body[1].hasNextPage
    /\ "tokenSet" \notin last.ops

\* C30: no entry leaves pageTokensMap or searchResultsCache before TTL has
\* passed since the latest write of its key: a step that removes an entry
\* finds no write of that key younger than TTL, whether or not the key was
\* written before as well.
C30_NoEarlyEviction ==
    [][/\ \A page \in DOMAIN pageTokensMap \ DOMAIN pageTokensMap' :
             ~StoredWithinTTL("pageTokens", page)
       /\ \A key \in DOMAIN searchResultsCache \ DOMAIN searchResultsCache' :
             ~StoredWithinTTL("searchResults", key)]_vars

\* C31: pageTokensMap never has an entry for page 0, and the token it holds
\* under a page k is the provider's page token for the offset k * PAGE_SIZE,
\* in every state the requests and the timer callbacks can reach.
C31_TokenOfPageIsItsOffset ==
    \A k \in DOMAIN pageTokensMap :
        /\ k >= 1
        /\ pageTokensMap[k] = Token(k * PAGE_SIZE)
        /\ k * PAGE_SIZE < NumUsers

\* Two listings are in flight together, one of them for a later page, while
\* pageTokensMap holds the tokens of two pages and time has passed.
C31_Witness ==
    /\ Cardinality(DOMAIN pageTokensMap) >= 2
    /\ \A r \in Reqs : req[r].st \in {"listWait", "projecting"}
    /\ \E r \in Reqs : req[r].page >= 1
    /\ now > 0

\* C32 as claimed: a served listing of page p whose hasNextPage is true has
\* pageTokens[p + 1] true, whatever ran while it was projecting its records.
C32_NextPageTokenShown ==
    (FinishedListing /\ last.res = <<200>> /\ last.body[1].hasNextPage)
        => last.body[1].pageTokens[last.page + 1]

\* C32 amended: a served listing of page p whose hasNextPage is true has
\* pageTokens[p + 1] true if no eviction callback of page p + 1 ran while it
\* was projecting its records.
C32_ShownUnlessEvicted ==
    (FinishedListing /\ last.res = <<200>> /\ last.body[1].hasNextPage
        /\ "nextPageEvicted" \notin last.ops)
        => last.body[1].pageTokens[last.page + 1]

\* A listing with a next page was served after it had been suspended
\* projecting while other requests stored tokens and time passed, and no
\* callback of its next page ran: the next page is shown.
C32_Witness ==
    /\ FinishedListing
    /\ last.res = <<200>>
    /\ last.body[1].hasNextPage
    /\ "nextPageEvicted" \notin last.ops
    /\ last.body[1].pageTokens[last.page + 1]
    /\ now > 0
    /\ \E t \in timers : t.map = "pageTokens" /\ t.page # last.page + 1

\* An auth.listUsers call of slot r's scan is rejected in this step.
ScanFails(r) ==
    /\ req[r].st = "scanWait"
    /\ req'[r].st = "idle"
    /\ "providerError" \in last'.ops

\* C33: a scan whose auth.listUsers call is rejected, after any number of
\* batches, leaves searchResultsCache and its timers as they were; a list is
\* stored only by a scan that has reached the last batch of the population;
\* and a search request that finds no entry under its key starts its scan
\* with the first batch and an empty list.
C33_NoPartialScanCached ==
    [][/\ \A r \in Reqs :
             ScanFails(r) =>
                 /\ searchResultsCache' = searchResultsCache
                 /\ timers' = timers
                 /\ last'.body = <<>>
       /\ \A r \in Reqs :
             StoresScan(r) =>
                 listUsers(SCAN_BATCH, req[r].token).pageToken = undefined
       /\ (/\ Receives
           /\ Received.search # <<>>
           /\ ~MapHas(searchResultsCache,
                      cacheKey(Received.search, Received.caller)))
            => /\ Received.st = "scanWait"
               /\ Received.token = undefined
               /\ Received.allUsers = <<>>
               /\ Received.calls = 1]_vars

\* A scan was rejected at its second call, after it had gathered the first
\* batch, while another request for the same search is still scanning; the
\* cache holds nothing.
C33_Witness ==
    /\ FinishedSearch
    /\ "providerError" \in last.ops
    /\ last.calls = 2
    /\ ~MapHas(searchResultsCache, cacheKey(last.search, last.caller))
    /\ \E r \in Reqs : /\ req[r].st = "scanWait"
                        /\ req[r].search = last.search
                        /\ req[r].caller = last.caller
                        /\ req[r].calls = 1

\* The operations on pageTokensMap and on searchResultsCache that a request
\* notes in its ops.
CursorOps == {"tokenGet", "tokenSet", "tokenHas"}
SearchOps == {"searchGet", "searchSet"}

\* The request does nothing on the cache that is not its own.
KeepsToItsCache(rec) ==
    IF rec.search # <<>> THEN rec.ops \cap CursorOps = {}
    ELSE rec.ops \cap SearchOps = {}

\* C34: a search request makes no get, set or has on pageTokensMap and
\* leaves it as it is in each of its steps; a listing request makes no get
\* or set on searchResultsCache and leaves it as it is in each of its steps.
C34_CachesIndependent ==
    [][/\ KeepsToItsCache(last')
       /\ \A r \in Reqs : KeepsToItsCache(req'[r])
       /\ Receives =>
             IF Received.search # <<>>
             THEN pageTokensMap' = pageTokensMap
             ELSE searchResultsCache' = searchResultsCache
       /\ \A r \in Reqs :
             (req[r].st # "idle" /\ req'[r] # req[r]) =>
                 IF req[r].search # <<>>
                 THEN pageTokensMap' = pageTokensMap
                 ELSE searchResultsCache' = searchResultsCache]_vars

\* A search has stored its result while pageTokensMap holds a token, and a
\* listing is in flight while searchResultsCache holds that result.
C34_Witness ==
    /\ FinishedSearch
    /\ "searchSet" \in last.ops
    /\ DOMAIN pageTokensMap # {}
    /\ DOMAIN searchResultsCache # {}
    /\ \E r \in Reqs : req[r].st = "projecting" /\ "tokenSet" \in req[r].ops

\* C35: a signUp answered 422 for a role outside VALID_ROLES leaves the
\* Identity Provider's accounts and claims and the Profile Store's documents
\* as they were, and a signUp of the same e-mail with a valid role that
\* follows it is answered 201.
C35_RejectedSignUpChangesNothing ==
    [][/\ (probe'.op = "signUp" /\ probe'.res = 422) =>
             /\ probe'.accounts = SignUpState.accounts
             /\ probe'.claims = SignUpState.claims
             /\ probe'.docs = SignUpState.docs
       /\ (/\ probe.op = "signUp" /\ probe.res = 422
           /\ probe'.op = "signUp"
           /\ probe'.email = probe.email
           /\ probe'.role \in VALID_ROLES) => probe'.res = 201]_vars

====
